---- MODULE Spec2Model ----
(***************************************************************************)
(* VERITAS quality-management core: the deviation store and audit ledger   *)
(* of MockDataRepository, the SessionManager operations that write to      *)
(* them (deviation lifecycle, report draft / sign), the signing form of    *)
(* the Regulatory Support page, the pages' cached reads                    *)
(* (utils.get_cached_data) and the lineage trace of the Governance Hub.    *)
(* The pure functions of engine/analytics.py (QC rules, Cpk, poolability,  *)
(* anomaly detection) are operators, each applied by a specification of    *)
(* its own whose initial states enumerate the arguments.                   *)
(*                                                                         *)
(* The SessionManager is one object shared by every script thread          *)
(* (st.cache_resource), so calls of different threads interleave at the    *)
(* statement boundaries where the repository reads and then rebinds its    *)
(* cache.  Spec is that interleaved program; SeqSpec is the same program   *)
(* with calls running one at a time.                                       *)
(***************************************************************************)
EXTENDS Integers, Sequences, FiniteSets, TLC

VARIABLES
    deviations,   \* _cache['deviations']: sequence of rows [id, status]
    audit,        \* _cache['audit']: sequence of entries
    drafts,       \* the report_data dict objects alive, by identity
    session,      \* st.session_state of each thread's page: draft_report, final_report
    pc,           \* position of each thread inside the call it is running
    call,         \* arguments and locals of the call each thread is inside
    last,         \* the call that returned or raised most recently, with its outcome
    snap,         \* write_audit_log: the self._cache['audit'] value read for pd.concat
    dsnap,        \* create_deviation: the self._cache['deviations'] value read for pd.concat
    nCalls,       \* number of calls started (logical time)
    nSigned,      \* per report_data object: finalize_and_sign_report calls that returned
    data_cache,   \* st.cache_data store of get_cached_data, by data_key
    calc          \* engine call under study: its arguments and, once it ran, its result

vars == <<deviations, audit, drafts, session, pc, call, last, snap, dsnap, nCalls, nSigned,
          data_cache, calc>>

----------------------------------------------------------------------------
(* Bounds of the model *)

\* calls started, over all threads: this caps the ledger, the store and the drafts
MaxCalls == 3

(* Program constants *)

FirstDevId == 2400

Threads == {"t1", "t2"}

kanban_states == <<"Open", "In Progress", "Under Review", "Closed">>

StateSet == {kanban_states[i] : i \in DOMAIN kanban_states}

\* what a caller may pass as current_status: any kanban state, or a string that is none
StatusArgs == StateSet \cup {"Archived"}

Users == {"testuser", "intruder"}

Passwords == {"", "password", "wrong"}

Studies == {101}

Reasons == {"QA Final Approval"}

Formats == {"PDF", "PowerPoint"}

Commentaries == {"", "text"}

\* <<user, action>> of a direct write_audit_log call: the Data Ingestion page's, and
\* calls with an empty user or an empty action
AppendArgs == {<<"testuser", "Data Ingestion">>, <<"", "Data Ingestion">>, <<"testuser", "">>}


----------------------------------------------------------------------------
(* Values *)

\* no engine call under study
NoCalc == [op |-> "none"]

NoSig == [user |-> "", ts |-> 0, reason |-> ""]

NoArtifact == [filename |-> "", watermark |-> "", sigs |-> <<>>, study |-> 0]

NoEntry == [timestamp |-> 0, user |-> "", action |-> "", record_id |-> 0, details |-> <<>>]

NoCall ==
    [op |-> "none", dev |-> 0, cur |-> "", user |-> "", draft |-> 0, reason |-> "",
     res |-> "none", ts |-> 0, viaForm |-> FALSE, credOk |-> FALSE, resign |-> FALSE,
     art |-> NoArtifact, entry |-> NoEntry, newId |-> 0, before |-> "",
     key |-> "", data |-> <<>>]

\* a data_key that st.cache_data holds no live value for
CacheMiss == [hit |-> FALSE, value |-> <<>>]

DataKeys == {"deviations", "audit"}

NoSession == [draft_report |-> 0, final_report |-> NoArtifact, report_format |-> "PDF"]

----------------------------------------------------------------------------
(* Pure helpers *)

\* states.index(current_status)
StateIndex(s) == CHOOSE i \in DOMAIN kanban_states : kanban_states[i] = s

\* the rows of the store whose id is dev_id
RowsOf(devs, dev_id) == {i \in DOMAIN devs : devs[i].id = dev_id}

\* the status a reader finds for dev_id: that of the first matching row
StoredStatus(devs, dev_id) ==
    IF RowsOf(devs, dev_id) = {} THEN ""
    ELSE devs[CHOOSE i \in RowsOf(devs, dev_id) : \A j \in RowsOf(devs, dev_id) : i <= j].status

DevIds(devs) == {devs[i].id : i \in DOMAIN devs}

AllIdle == \A t \in Threads : pc[t] = "idle"

----------------------------------------------------------------------------
(* The code's pure steps *)

\* guards whose final-state test is off by one: the state before the last is refused
AdvanceRejects_OffByOne(current_status) ==
    IF current_status \notin StateSet THEN TRUE
    ELSE StateIndex(current_status) + 1 >= Len(kanban_states)

\* advance_deviation_status: the two guards on the caller's current_status
AdvanceRejects(current_status) ==
    IF current_status \notin StateSet THEN TRUE
    ELSE StateIndex(current_status) >= Len(kanban_states)

\* advance_deviation_status: new_status = states[current_index + 1]
NewStatus(current_status) == kanban_states[StateIndex(current_status) + 1]

\* an update that assigns the status column of every row
UpdateDeviationStatus_AllRows(devs, dev_id, new_status) ==
    [i \in DOMAIN devs |-> [devs[i] EXCEPT !.status = new_status]]

\* update_deviation_status: .loc[id == dev_id, 'status'] = new_status
UpdateDeviationStatus(devs, dev_id, new_status) ==
    [i \in DOMAIN devs |->
        IF devs[i].id = dev_id THEN [devs[i] EXCEPT !.status = new_status] ELSE devs[i]]

\* create_deviation: new_id = f"DEV-{2400 + len(self._cache['deviations'])}"
NewDevId(devs) == FirstDevId + Len(devs)

\* a new row that is created in the second state of the lifecycle
NewDeviationRow_InProgress(new_id) ==
    [id |-> new_id, status |-> "In Progress", title |-> "QC Discrepancies found",
     priority |-> "High", linked_record |-> "QC_REPORT", rca_capa |-> ""]

\* create_deviation: the row that is concatenated; create_deviation_from_qc passes the
\* title "QC Discrepancies found in Study ...", a linked_record "QC_REPORT_..." and the
\* priority "High", and the four RCA/CAPA columns (one field here) are empty
NewDeviationRow(new_id) ==
    [id |-> new_id, status |-> "Open", title |-> "QC Discrepancies found",
     priority |-> "High", linked_record |-> "QC_REPORT", rca_capa |-> ""]

\* a concatenation with its operands swapped: the new entry lands before the old ones
AuditConcat_Swapped(log, new_entry) == <<new_entry>> \o log

\* write_audit_log lines 140-146: new_entry is the caller's arguments stamped with
\* pd.Timestamp.now(); the clock of the model is the number of calls started
NewEntry(args, now) == [args EXCEPT !.timestamp = now]

\* write_audit_log: pd.concat([self._cache['audit'], new_entry], ignore_index=True)
AuditConcat(log, new_entry) == Append(log, new_entry)

\* the entry advance_deviation_status hands to write_audit_log
StatusChangedEntry(dev_id, current_status, new_status, username) ==
    [timestamp |-> 0, user |-> username, action |-> "Deviation Status Changed",
     record_id |-> dev_id, details |-> <<current_status, new_status>>]

\* the entry create_deviation_from_qc hands to write_audit_log
DeviationCreatedEntry(new_dev_id, study_id, username) ==
    [timestamp |-> 0, user |-> username, action |-> "Deviation Created",
     record_id |-> new_dev_id, details |-> <<study_id>>]

\* a signature entry that names a fixed account as user instead of the signer
SignatureEntry_NoSigner(data, signing_reason, username) ==
    [timestamp |-> 0, user |-> "system", action |-> "E-Signature Applied",
     record_id |-> data.study, details |-> <<data.study, signing_reason>>]

\* the entry finalize_and_sign_report hands to write_audit_log
SignatureEntry(data, signing_reason, username) ==
    [timestamp |-> 0, user |-> username, action |-> "E-Signature Applied",
     record_id |-> data.study, details |-> <<data.study, signing_reason>>]

\* finalize_and_sign_report: signature_details
SignatureDetails(username, ts, signing_reason) ==
    [user |-> username, ts |-> ts, reason |-> signing_reason]

\* auth.verify_credentials
verify_credentials(username, password) ==
    IF username = "" \/ password = "" THEN FALSE
    ELSE username = "testuser" /\ password = "password"

\* generate_pdf_report: the validation that raises ValueError
PdfRejects(data) == data.study = 0 \/ data.commentary = ""

\* generate_pdf_report: the pages are watermarked when a watermark is given and one
\* signature section is added when report_data holds signature_details
generate_pdf_report(data, watermark) ==
    [watermark |-> watermark,
     sigs |-> IF data.signature # NoSig THEN <<data.signature>> ELSE <<>>]

\* generate_ppt_report: slides only, no watermark and no signature
generate_ppt_report(data) == [watermark |-> "", sigs |-> <<>>]

\* the dict a manager method returns: the filename prefix and the rendered bytes
Artifact(prefix, bytes, study_id) ==
    [filename |-> prefix, watermark |-> bytes.watermark, sigs |-> bytes.sigs,
     study |-> study_id]

\* generate_draft_report: the parameter validation that raises ValueError
DraftRejects(study_id, report_format, commentary) ==
    study_id = 0 \/ report_format = "" \/ commentary = ""

\* generate_draft_report: report_data
ReportData(study_id, commentary) ==
    [study |-> study_id, commentary |-> commentary, signature |-> NoSig]

\* generate_draft_report: the artifact rendered for the format
DraftArtifact(data, report_format) ==
    IF report_format = "PDF"
    THEN Artifact("DRAFT", generate_pdf_report(data, "DRAFT"), data.study)
    ELSE Artifact("DRAFT", generate_ppt_report(data), data.study)

\* a final rendering that passes the draft watermark on
FinalArtifact_Watermarked(data) ==
    Artifact("FINAL", generate_pdf_report(data, "DRAFT"), data.study)

\* finalize_and_sign_report: final_bytes = reporting.generate_pdf_report(draft_report_data)
FinalArtifact(data) == Artifact("FINAL", generate_pdf_report(data, ""), data.study)

----------------------------------------------------------------------------
(* Data lineage: plotting.plot_data_lineage_graph *)

\* df[df['record_id'] == record_id]: the rows of the record, in the order of the frame
RecordRows(df, record_id) ==
    LET OfRecord(row) == row.record_id = record_id
    IN  SelectSeq(df, OfRecord)

\* sort_values('timestamp'), one row at a time: the row goes behind every row whose
\* timestamp is not later than its own, so rows of equal timestamp keep their order
RECURSIVE InsertByTimestamp(_, _)
InsertByTimestamp(sorted, row) ==
    IF sorted = <<>> THEN <<row>>
    ELSE IF sorted[Len(sorted)].timestamp <= row.timestamp THEN Append(sorted, row)
    ELSE Append(InsertByTimestamp(SubSeq(sorted, 1, Len(sorted) - 1), row),
                sorted[Len(sorted)])

RECURSIVE SortValuesByTimestamp(_)
SortValuesByTimestamp(rows) ==
    IF rows = <<>> THEN <<>>
    ELSE InsertByTimestamp(SortValuesByTimestamp(SubSeq(rows, 1, Len(rows) - 1)),
                           rows[Len(rows)])

\* the nodes event_0, event_1, ... of the graph, each made from one row
plot_data_lineage_graph(df, record_id) == SortValuesByTimestamp(RecordRows(df, record_id))

----------------------------------------------------------------------------
(* Initial state: the repository as generated, nobody inside a call *)

\* _generate_deviations_data: ids count up from DEV-2400, statuses are drawn at random
InitialDeviations(status) ==
    <<[id |-> FirstDevId, status |-> status, title |-> "OOS Result Found",
       priority |-> "Medium", linked_record |-> "HPLC-02", rca_capa |-> ""]>>

\* _generate_audit_log: mock entries, signature events among them
InitialAudit ==
    <<[timestamp |-> 0, user |-> "system", action |-> "E-Signature Applied",
       record_id |-> FirstDevId, details |-> <<>>]>>

\* the repository as constructed, the first deviation in the given state
Constructed(status) ==
    /\ deviations = InitialDeviations(status)
    /\ audit = InitialAudit
    /\ drafts = <<>>
    /\ session = [t \in Threads |-> NoSession]
    /\ pc = [t \in Threads |-> "idle"]
    /\ call = [t \in Threads |-> NoCall]
    /\ last = NoCall
    /\ snap = [t \in Threads |-> <<>>]
    /\ dsnap = [t \in Threads |-> <<>>]
    /\ nCalls = 0
    /\ nSigned = <<>>
    /\ data_cache = [k \in DataKeys |-> CacheMiss]

Init ==
    /\ \E s \in StateSet : Constructed(s)
    /\ calc = NoCalc

CanStart(t) == pc[t] = "idle" /\ nCalls < MaxCalls

----------------------------------------------------------------------------
(* advance_deviation_status(dev_id, current_status, username) *)

AdvanceCall(t, dev_id, current_status, username) ==
    [NoCall EXCEPT !.op = "advance", !.dev = dev_id, !.cur = current_status,
                   !.user = username,
                   !.before = StoredStatus(deviations, dev_id)]

\* an advance that moves the deviation to the final state before it raises
AdvanceRaise_Clamped(t, dev_id, current_status, username) ==
    /\ CanStart(t)
    /\ AdvanceRejects(current_status)
    /\ deviations' = UpdateDeviationStatus(deviations, dev_id, kanban_states[Len(kanban_states)])
    /\ last' = [AdvanceCall(t, dev_id, current_status, username) EXCEPT !.res = "ValueError"]
    /\ nCalls' = nCalls + 1
    /\ UNCHANGED <<calc, data_cache, audit, drafts, session, pc, call, snap, dsnap, nSigned>>

\* lines 105-112: the guards raise ValueError
AdvanceRaise(t, dev_id, current_status, username) ==
    /\ CanStart(t)
    /\ AdvanceRejects(current_status)
    /\ last' =
                    [AdvanceCall(t, dev_id, current_status, username) EXCEPT !.res = "ValueError"]
    /\ nCalls' = nCalls + 1
    /\ UNCHANGED <<calc, data_cache, deviations, audit, drafts, session, pc, call, snap, dsnap, nSigned>>

\* lines 114-115: update_deviation_status, then write_audit_log is entered
AdvanceUpdate(t, dev_id, current_status, username) ==
    /\ CanStart(t)
    /\ ~AdvanceRejects(current_status)
    /\ deviations' = UpdateDeviationStatus(deviations, dev_id, NewStatus(current_status))
    /\ call' = [call EXCEPT ![t] =
                    [AdvanceCall(t, dev_id, current_status, username) EXCEPT
                        !.entry = NewEntry(StatusChangedEntry(dev_id, current_status,
                                               NewStatus(current_status), username),
                                           nCalls + 1)]]
    /\ pc' = [pc EXCEPT ![t] = "wal_read"]
    /\ nCalls' = nCalls + 1
    /\ UNCHANGED <<calc, data_cache, audit, drafts, session, snap, dsnap, nSigned, last>>

----------------------------------------------------------------------------
(* write_audit_log(user, action, details, record_id) *)

\* a direct call, as the Data Ingestion page makes it
WriteAuditLog(t, user, action, record_id) ==
    /\ CanStart(t)
    /\ call' = [call EXCEPT ![t] =
                    [NoCall EXCEPT !.op = "write_audit_log", !.user = user,
                                   !.entry = NewEntry([NoEntry EXCEPT !.user = user,
                                                          !.action = action,
                                                          !.record_id = record_id],
                                                      nCalls + 1)]]
    /\ pc' = [pc EXCEPT ![t] = "wal_read"]
    /\ nCalls' = nCalls + 1
    /\ UNCHANGED <<calc, data_cache, deviations, audit, drafts, session, snap, dsnap, nSigned, last>>

\* line 148, right-hand side: self._cache['audit'] is read for pd.concat
WalRead(t) ==
    /\ pc[t] = "wal_read"
    /\ snap' = [snap EXCEPT ![t] = audit]
    /\ pc' = [pc EXCEPT ![t] = "wal_write"]
    /\ UNCHANGED <<calc, data_cache, deviations, audit, drafts, session, call, dsnap, nCalls, nSigned, last>>

\* a form that keeps the draft after signing
SessionAfterSign_KeepsDraft(sess, final_report_artifact) ==
    [sess EXCEPT !.final_report = final_report_artifact]

\* what the signing form does with the artifact returned to it (page lines 120-121)
SessionAfterSign(sess, final_report_artifact) ==
    [sess EXCEPT !.final_report = final_report_artifact, !.draft_report = 0]

\* line 148, assignment: the concatenation is bound to self._cache['audit']; every
\* caller returns right after write_audit_log, so the call ends here
WalWrite(t) ==
    /\ pc[t] = "wal_write"
    /\ audit' = AuditConcat(snap[t], call[t].entry)
    /\ snap' = [snap EXCEPT ![t] = <<>>]
    /\ last' = [call[t] EXCEPT !.res = "ok"]
    /\ call' = [call EXCEPT ![t] = NoCall]
    /\ session' = IF call[t].op = "finalize" /\ call[t].viaForm
                   THEN [session EXCEPT ![t] = SessionAfterSign(session[t], call[t].art)]
                   ELSE session
    /\ nSigned' = IF call[t].op = "finalize"
                   THEN [nSigned EXCEPT ![call[t].draft] = @ + 1]
                   ELSE nSigned
    /\ pc' = [pc EXCEPT ![t] = "idle"]
    /\ UNCHANGED <<calc, data_cache, deviations, drafts, dsnap, nCalls>>

----------------------------------------------------------------------------
(* create_deviation_from_qc(report_df, study_id, username) *)

\* line 80: the guard that raises ValueError
CreateRejects(report_empty, study_id, username) ==
    report_empty \/ study_id = 0 \/ username = ""

CreateRaise(t, report_empty, study_id, username) ==
    /\ CanStart(t)
    /\ CreateRejects(report_empty, study_id, username)
    /\ last' =
                    [NoCall EXCEPT !.op = "create", !.user = username, !.res = "ValueError"]
    /\ nCalls' = nCalls + 1
    /\ UNCHANGED <<calc, data_cache, deviations, audit, drafts, session, pc, call, snap, dsnap, nSigned>>

\* create_deviation line 153: the new id is computed from the length of the store
CreateStart(t, report_empty, study_id, username) ==
    /\ CanStart(t)
    /\ ~CreateRejects(report_empty, study_id, username)
    /\ call' = [call EXCEPT ![t] =
                    [NoCall EXCEPT !.op = "create", !.user = username,
                                   !.newId = NewDevId(deviations),
                                   !.entry = DeviationCreatedEntry(NewDevId(deviations),
                                                                   study_id, username)]]
    /\ pc' = [pc EXCEPT ![t] = "cd_concat"]
    /\ nCalls' = nCalls + 1
    /\ UNCHANGED <<calc, data_cache, deviations, audit, drafts, session, snap, dsnap, nSigned, last>>

\* create_deviation line 162, right-hand side: the store is read for pd.concat
CreateConcat(t) ==
    /\ pc[t] = "cd_concat"
    /\ dsnap' = [dsnap EXCEPT ![t] = deviations]
    /\ pc' = [pc EXCEPT ![t] = "cd_assign"]
    /\ UNCHANGED <<calc, data_cache, deviations, audit, drafts, session, call, snap, nCalls, nSigned, last>>

\* create_deviation line 162, assignment; write_audit_log is entered next
CreateAssign(t) ==
    /\ pc[t] = "cd_assign"
    /\ deviations' = Append(dsnap[t], NewDeviationRow(call[t].newId))
    /\ dsnap' = [dsnap EXCEPT ![t] = <<>>]
    /\ call' = [call EXCEPT ![t].entry = NewEntry(call[t].entry, nCalls)]
    /\ pc' = [pc EXCEPT ![t] = "wal_read"]
    /\ UNCHANGED <<calc, data_cache, audit, drafts, session, snap, nCalls, nSigned, last>>

----------------------------------------------------------------------------
(* generate_draft_report(report_params) *)

GenerateCall(study_id) == [NoCall EXCEPT !.op = "generate", !.dev = study_id]

\* line 157-158: a missing parameter raises ValueError
GenerateRaise(t, study_id, report_format, commentary) ==
    /\ CanStart(t)
    /\ DraftRejects(study_id, report_format, commentary)
    /\ last' = [GenerateCall(study_id) EXCEPT !.res = "ValueError"]
    /\ nCalls' = nCalls + 1
    /\ UNCHANGED <<calc, data_cache, deviations, audit, drafts, session, pc, call, snap, dsnap, nSigned>>

\* what the page does with a generated draft (page lines 67-68)
SessionAfterDraft(sess, draft_id, report_format) ==
    [sess EXCEPT !.draft_report = draft_id, !.final_report = NoArtifact,
                 !.report_format = report_format]

\* a draft generation that also logs a 'Report Generated' entry to the ledger
GenerateDraftReport_Logged(t, study_id, report_format, commentary, via_page) ==
    /\ CanStart(t)
    /\ ~DraftRejects(study_id, report_format, commentary)
    /\ drafts' = Append(drafts, ReportData(study_id, commentary))
    /\ last' = [GenerateCall(study_id) EXCEPT
                    !.draft = Len(drafts) + 1, !.res = "ok",
                    !.art = DraftArtifact(ReportData(study_id, commentary), report_format)]
    /\ session' = IF via_page
                   THEN [session EXCEPT ![t] =
                            SessionAfterDraft(session[t], Len(drafts) + 1, report_format)]
                   ELSE session
    /\ nSigned' = Append(nSigned, 0)
    /\ nCalls' = nCalls + 1
    /\ audit' = Append(audit, [NoEntry EXCEPT !.action = "Report Generated",
                                              !.record_id = study_id])
    /\ UNCHANGED <<calc, data_cache, deviations, pc, call, snap, dsnap>>

\* lines 160-191: report_data is built and the draft rendered; via_page tells whether
\* the Regulatory Support page made the call and stores the result in its session
GenerateDraftReport(t, study_id, report_format, commentary, via_page) ==
    /\ CanStart(t)
    /\ ~DraftRejects(study_id, report_format, commentary)
    /\ drafts' = Append(drafts, ReportData(study_id, commentary))
    /\ last' = [GenerateCall(study_id) EXCEPT
                    !.draft = Len(drafts) + 1, !.res = "ok",
                    !.art = DraftArtifact(ReportData(study_id, commentary), report_format)]
    /\ session' = IF via_page
                   THEN [session EXCEPT ![t] =
                            SessionAfterDraft(session[t], Len(drafts) + 1, report_format)]
                   ELSE session
    /\ nSigned' = Append(nSigned, 0)
    /\ nCalls' = nCalls + 1
    /\ UNCHANGED <<calc, data_cache, deviations, audit, pc, call, snap, dsnap>>

\* a caller of finalize_and_sign_report builds the report_data dict itself
CallerReportData(t, study_id, commentary) ==
    /\ CanStart(t)
    /\ drafts' = Append(drafts, ReportData(study_id, commentary))
    /\ nSigned' = Append(nSigned, 0)
    /\ nCalls' = nCalls + 1
    /\ UNCHANGED <<calc, data_cache, deviations, audit, session, pc, call, snap, dsnap, last>>

----------------------------------------------------------------------------
(* finalize_and_sign_report(draft_report_data, signing_reason, username) *)

\* lines 205-211: signature_details is stored into the caller's report_data dict
FinalizeBegin(t, d, signing_reason, username, via_form, cred_ok) ==
    /\ CanStart(t)
    /\ d \in DOMAIN drafts
    /\ drafts' = [drafts EXCEPT ![d].signature =
                      SignatureDetails(username, nCalls + 1, signing_reason)]
    /\ call' = [call EXCEPT ![t] =
                    [NoCall EXCEPT !.op = "finalize", !.draft = d, !.user = username,
                                   !.reason = signing_reason, !.ts = nCalls + 1,
                                   !.viaForm = via_form,
                                   !.credOk = cred_ok, !.resign = (nSigned[d] > 0)]]
    /\ pc' = [pc EXCEPT ![t] = "fin_render"]
    /\ nCalls' = nCalls + 1
    /\ UNCHANGED <<calc, data_cache, deviations, audit, session, snap, dsnap, nSigned, last>>

\* a direct call of the manager method
FinalizeAndSignReport(t, d, signing_reason, username) ==
    FinalizeBegin(t, d, signing_reason, username, FALSE, FALSE)

\* line 214: generate_pdf_report raises ValueError on incomplete report data
FinalizeRenderRaise(t) ==
    /\ pc[t] = "fin_render"
    /\ PdfRejects(drafts[call[t].draft])
    /\ last' = [call[t] EXCEPT !.res = "ValueError"]
    /\ call' = [call EXCEPT ![t] = NoCall]
    /\ pc' = [pc EXCEPT ![t] = "idle"]
    /\ UNCHANGED <<calc, data_cache, deviations, audit, drafts, session, snap, dsnap, nCalls, nSigned>>

\* line 214: the final PDF is rendered from the dict as it is now; lines 216-221:
\* write_audit_log is entered with the signature entry
FinalizeRender(t) ==
    /\ pc[t] = "fin_render"
    /\ ~PdfRejects(drafts[call[t].draft])
    /\ call' = [call EXCEPT ![t].art = FinalArtifact(drafts[call[t].draft]),
                             ![t].entry = NewEntry(SignatureEntry(drafts[call[t].draft],
                                                       call[t].reason, call[t].user),
                                                   nCalls)]
    /\ pc' = [pc EXCEPT ![t] = "wal_read"]
    /\ UNCHANGED <<calc, data_cache, deviations, audit, drafts, session, snap, dsnap, nCalls, nSigned, last>>

----------------------------------------------------------------------------
(* Regulatory Support page: the e-signature form, render_signing_and_locking *)

\* app.py logs a user in only after verify_credentials, so the session's username is
\* the one account that function accepts
SessionUser == "testuser"

\* lines 76-79 and 93-95: the form is shown only for a held PDF draft
FormShown(t) == session[t].draft_report # 0 /\ session[t].report_format = "PDF"

\* lines 107-110: the two branches that show an error and make no call
FormRejects(password) ==
    password = "" \/ ~verify_credentials(SessionUser, password)

FormSignRejected(t, password) ==
    /\ CanStart(t)
    /\ FormShown(t)
    /\ FormRejects(password)
    /\ last' =
                    [NoCall EXCEPT !.op = "form_sign", !.draft = session[t].draft_report,
                                   !.user = SessionUser, !.viaForm = TRUE,
                                   !.res = "AuthenticationFailed"]
    /\ nCalls' = nCalls + 1
    /\ UNCHANGED <<calc, data_cache, deviations, audit, drafts, session, pc, call, snap, dsnap, nSigned>>

\* lines 111-119: the credentials were accepted and the manager is called
FormSignAccepted(t, password, signing_reason) ==
    /\ FormShown(t)
    /\ ~FormRejects(password)
    /\ FinalizeBegin(t, session[t].draft_report, signing_reason, SessionUser, TRUE, TRUE)

----------------------------------------------------------------------------
(* utils.get_cached_data(data_key), decorated with st.cache_data(ttl=600) *)

\* MockDataRepository.get_data: a copy of the dataset as it is now
get_data(data_type) == IF data_type = "deviations" THEN deviations ELSE audit

\* st.cache_data: the stored value is returned while it is younger than the ttl
CacheServes(data_key, expired) == data_cache[data_key].hit /\ ~expired

\* the frame the call returns: the stored one, or a fresh copy from the repository
CachedData(data_key, expired) ==
    IF CacheServes(data_key, expired) THEN data_cache[data_key].value
    ELSE get_data(data_key)

\* a page reads a dataset; expired tells whether the ttl of the stored value has run out
GetCachedData(t, data_key, expired) ==
    /\ CanStart(t)
    /\ data_cache' = [data_cache EXCEPT ![data_key] =
                          [hit |-> TRUE, value |-> CachedData(data_key, expired)]]
    /\ last' = [NoCall EXCEPT !.op = "get_cached_data", !.key = data_key, !.res = "ok",
                              !.data = CachedData(data_key, expired)]
    /\ nCalls' = nCalls + 1
    /\ UNCHANGED <<calc, deviations, audit, drafts, session, pc, call, snap, dsnap, nSigned>>

----------------------------------------------------------------------------
(* The program *)

Step(t) ==
    \/ \E d \in DevIds(deviations), s \in StatusArgs : AdvanceRaise(t, d, s, SessionUser)
    \/ \E d \in DevIds(deviations), s \in StatusArgs : AdvanceUpdate(t, d, s, SessionUser)
    \/ \E a \in AppendArgs : WriteAuditLog(t, a[1], a[2], 0)
    \/ WalRead(t)
    \/ WalWrite(t)
    \/ \E e \in BOOLEAN, st \in Studies : CreateRaise(t, e, st, SessionUser)
    \/ \E e \in BOOLEAN, st \in Studies : CreateStart(t, e, st, SessionUser)
    \/ CreateConcat(t)
    \/ CreateAssign(t)
    \/ \E st \in Studies, f \in Formats, c \in Commentaries : GenerateRaise(t, st, f, c)
    \/ \E st \in Studies, f \in Formats, c \in Commentaries, v \in BOOLEAN :
           GenerateDraftReport(t, st, f, c, v)
    \/ \E st \in Studies : CallerReportData(t, st, "")
    \/ \E d \in DOMAIN drafts, r \in Reasons, u \in Users : FinalizeAndSignReport(t, d, r, u)
    \/ FinalizeRenderRaise(t)
    \/ FinalizeRender(t)
    \/ \E p \in Passwords : FormSignRejected(t, p)
    \/ \E p \in Passwords, r \in Reasons : FormSignAccepted(t, p, r)
    \/ \E k \in DataKeys, x \in BOOLEAN : GetCachedData(t, k, x)

\* every script thread shares the one SessionManager
Next == \E t \in Threads : Step(t)

Spec == Init /\ [][Next]_vars

\* one thread alone: its calls run one after the other
SeqNext == Step("t1")

SeqSpec == Init /\ [][SeqNext]_vars

----------------------------------------------------------------------------
(* engine/analytics.py: the rule-based QC engine.  Measured values are in     *)
(* hundredths of their unit; a cell is the set of its values, empty when the  *)
(* cell is null, so that a comparison with a null cell is false as it is for  *)
(* NaN.  An absent limit (None) is the empty set in the same way.             *)

\* rows of a dataset that is enumerated (ExampleDataset is added to these)
MaxRows == 2

Null == {}

IsNull(cell) == cell = Null

\* df[col] < bound, df[col] > bound: one element of the boolean mask
Below(cell, bound) == \E v \in cell : v < bound

Above(cell, bound) == \E v \in cell : v > bound

\* config.py, _ProcessCapabilitySettings.available_cqas
available_cqas == <<"purity", "main_impurity", "bio_activity">>

\* config.py, _ProcessCapabilitySettings.spec_limits, in the dict's order
spec_limits ==
    <<[cqa |-> "purity", lsl |-> {9800}, usl |-> {10200}],
      [cqa |-> "main_impurity", lsl |-> {0}, usl |-> {50}],
      [cqa |-> "bio_activity", lsl |-> {9000}, usl |-> {11000}]>>

\* limits with one side absent, as _StabilitySettings.spec_limits has them
one_sided_limits ==
    <<[cqa |-> "purity", lsl |-> {9800}, usl |-> Null],
      [cqa |-> "main_impurity", lsl |-> Null, usl |-> {75}]>>

\* the app_config values a caller passes: the available CQAs and the limits
AppConfigs ==
    {[available_cqas |-> available_cqas, spec_limits |-> lim] :
        lim \in {spec_limits, one_sided_limits}}

\* rules_config: the three checkboxes of the QC page
RuleConfigs == [check_nulls : BOOLEAN, check_negatives : BOOLEAN, check_spec_limits : BOOLEAN]

PurityCells == {Null, {10000}, {15000}}

BioCells == {Null, {-500}, {10000}}

\* a dataset: its CQA columns and its rows; the sample_id of a row is its position
Frame(columns, rows) == [columns |-> columns, rows |-> rows]

SeqsUpTo(S, n) == UNION {[1..k -> S] : k \in 0..n}

\* 5 rows, purity only, one null and one 150.00
ExampleDataset ==
    Frame({"purity"}, <<[purity |-> {10000}], [purity |-> {10000}], [purity |-> Null],
                        [purity |-> {15000}], [purity |-> {10000}]>>)

Datasets ==
    {Frame({"purity"}, r) : r \in SeqsUpTo([purity : PurityCells], MaxRows)}
    \cup {Frame({"purity", "bio_activity"}, r) :
            r \in SeqsUpTo([purity : PurityCells \ {Null}, bio_activity : BioCells], MaxRows)}
    \cup {ExampleDataset}

\* positions of the rows a boolean mask keeps, in the frame's row order (df[mask].iterrows())
MaskedRows(df, mask) ==
    SelectSeq([i \in 1..Len(df.rows) |-> i], LAMBDA i : mask[i])

NoDetails == [cols |-> <<>>, cqa |-> "", value |-> Null, lsl |-> Null, usl |-> Null]

Discrepancy(sample_id, issue, details) ==
    [sample_id |-> sample_id, Issue |-> issue, Details |-> details]

\* lines 104-109
MissingValueCheck(df, app_config) ==
    LET key_cols == SelectSeq(app_config.available_cqas, LAMBDA col : col \in df.columns)
        null_rows == MaskedRows(df, [i \in 1..Len(df.rows) |->
                         \E k \in 1..Len(key_cols) : IsNull(df.rows[i][key_cols[k]])])
        null_cols(i) == SelectSeq(key_cols, LAMBDA col : IsNull(df.rows[i][col]))
    IN  [k \in 1..Len(null_rows) |->
            Discrepancy(null_rows[k], "Missing Value",
                        [NoDetails EXCEPT !.cols = null_cols(null_rows[k])])]

\* lines 111-114
NegativeValueCheck(df) ==
    IF "bio_activity" \in df.columns
    THEN LET negative_rows == MaskedRows(df, [i \in 1..Len(df.rows) |->
                                      Below(df.rows[i]["bio_activity"], 0)])
         IN  [k \in 1..Len(negative_rows) |->
                 Discrepancy(negative_rows[k], "Impossible Negative Value",
                             [NoDetails EXCEPT !.cqa = "bio_activity",
                                               !.value = df.rows[negative_rows[k]]["bio_activity"]])]
    ELSE <<>>

\* the loop's pass with an absent limit read as 0
OutOfRange_AbsentAsZero(df, specs) ==
    IF specs.cqa \in df.columns
    THEN LET lsl == IF specs.lsl # Null THEN specs.lsl ELSE {0}
             usl == IF specs.usl # Null THEN specs.usl ELSE {0}
             oor_mask(i) ==
                 \/ \E b \in lsl : Below(df.rows[i][specs.cqa], b)
                 \/ \E b \in usl : Above(df.rows[i][specs.cqa], b)
             oor_rows == MaskedRows(df, [i \in 1..Len(df.rows) |->
                             oor_mask(i) /\ ~IsNull(df.rows[i][specs.cqa])])
         IN  [k \in 1..Len(oor_rows) |->
                 Discrepancy(oor_rows[k], "Out of Specification",
                             [NoDetails EXCEPT !.cqa = specs.cqa,
                                               !.value = df.rows[oor_rows[k]][specs.cqa],
                                               !.lsl = specs.lsl, !.usl = specs.usl])]
    ELSE <<>>

\* lines 119-123, one pass of the loop: the rows of one CQA outside its limits
OutOfRange(df, specs) ==
    IF specs.cqa \in df.columns
    THEN LET oor_mask(i) ==
                 \/ (IF specs.lsl # Null
                     THEN \E b \in specs.lsl : Below(df.rows[i][specs.cqa], b) ELSE FALSE)
                 \/ (IF specs.usl # Null
                     THEN \E b \in specs.usl : Above(df.rows[i][specs.cqa], b) ELSE FALSE)
             oor_rows == MaskedRows(df, [i \in 1..Len(df.rows) |->
                             oor_mask(i) /\ ~IsNull(df.rows[i][specs.cqa])])
         IN  [k \in 1..Len(oor_rows) |->
                 Discrepancy(oor_rows[k], "Out of Specification",
                             [NoDetails EXCEPT !.cqa = specs.cqa,
                                               !.value = df.rows[oor_rows[k]][specs.cqa],
                                               !.lsl = specs.lsl, !.usl = specs.usl])]
    ELSE <<>>

\* lines 117-123: the loop over spec_limits.items()
RECURSIVE SpecLimitCheck(_, _)
SpecLimitCheck(df, limits) ==
    IF limits = <<>> THEN <<>>
    ELSE OutOfRange(df, Head(limits)) \o SpecLimitCheck(df, Tail(limits))

\* the rules run with the limits first
apply_qc_rules_LimitsFirst(df, rules_config, app_config) ==
    LET discrepancies == <<>>
        after_limits == IF rules_config.check_spec_limits
                        THEN discrepancies \o SpecLimitCheck(df, app_config.spec_limits)
                        ELSE discrepancies
        after_nulls == IF rules_config.check_nulls
                       THEN after_limits \o MissingValueCheck(df, app_config)
                       ELSE after_limits
    IN  IF rules_config.check_negatives
        THEN after_nulls \o NegativeValueCheck(df)
        ELSE after_nulls

\* apply_qc_rules, lines 95-125; every dataset here has the sample_id column
apply_qc_rules(df, rules_config, app_config) ==
    LET discrepancies == <<>>
        after_nulls == IF rules_config.check_nulls
                       THEN discrepancies \o MissingValueCheck(df, app_config)
                       ELSE discrepancies
        after_negatives == IF rules_config.check_negatives
                           THEN after_nulls \o NegativeValueCheck(df)
                           ELSE after_nulls
    IN  IF rules_config.check_spec_limits
        THEN after_negatives \o SpecLimitCheck(df, app_config.spec_limits)
        ELSE after_negatives

\* everything but calc: the engine functions touch none of it
store == <<deviations, audit, drafts, session, pc, call, last, snap, dsnap, nCalls, nSigned,
           data_cache>>

\* calls of apply_qc_rules with the configuration under study
MaxRuns == 2

\* the QC page: a dataset is selected, the form holds a rule configuration
QcCases ==
    {[op |-> "qc", df |-> df, rules_config |-> r, app_config |-> a,
      runs |-> 0, res |-> <<>>, qc_report |-> <<>>] :
        df \in Datasets, r \in RuleConfigs, a \in AppConfigs}

QcInit == Constructed(kanban_states[1]) /\ calc \in QcCases

\* the report of a call that began with the list of the report before it
ApplyQcRules_Accumulating(rules_config) ==
    /\ calc.op = "qc"
    /\ rules_config = calc.rules_config => calc.runs < MaxRuns
    /\ LET report == calc.qc_report \o apply_qc_rules(calc.df, rules_config, calc.app_config)
       IN  calc' = [calc EXCEPT !.qc_report = report,
                                !.res = IF rules_config = calc.rules_config THEN report ELSE @,
                                !.runs = IF rules_config = calc.rules_config THEN @ + 1 ELSE @]
    /\ UNCHANGED store

\* pages/1_QC_Center.py lines 32-41: the form is submitted with rules_config; the
\* report is kept in st.session_state.qc_report.  res is the report of the latest
\* call made with the configuration under study, runs counts those calls.
ApplyQcRules(rules_config) ==
    /\ calc.op = "qc"
    /\ rules_config = calc.rules_config => calc.runs < MaxRuns
    /\ LET report == apply_qc_rules(calc.df, rules_config, calc.app_config)
       IN  calc' = [calc EXCEPT !.qc_report = report,
                                !.res = IF rules_config = calc.rules_config THEN report ELSE @,
                                !.runs = IF rules_config = calc.rules_config THEN @ + 1 ELSE @]
    /\ UNCHANGED store

QcNext == \E r \in RuleConfigs : ApplyQcRules(r)

QcSpec == QcInit /\ [][QcNext]_vars

----------------------------------------------------------------------------
(* engine/analytics.py: calculate_cpk.  A sample is a sequence of cells with  *)
(* values in tenths; limits are in tenths too.  Whether std() is zero is      *)
(* decided in float64 as pandas computes it.  An index is kept in units of    *)
(* 1/std: [num, den] stands for num / (den * std_dev), std_dev being the      *)
(* nonzero standard deviation computed for the sample at hand.                *)

\* values of a sample that is enumerated
MaxSample == 3

\* null, 0.1, 4.0, 5.0
SampleCells == {Null, {1}, {40}, {50}}

\* lsl and usl as passed: None, or a number (0 among them)
LslArgs == {Null, {0}, {20}}

UslArgs == {Null, {0}, {100}}

\* data_series.dropna()
DropNa(data_series) == SelectSeq(data_series, LAMBDA cell : ~IsNull(cell))

ValueOf(cell) == CHOOSE v \in cell : TRUE

RECURSIVE SumOf(_)
SumOf(data) == IF data = <<>> THEN 0 ELSE ValueOf(Head(data)) + SumOf(Tail(data))

(* IEEE binary64 arithmetic as pandas uses it for Series.std(): a positive    *)
(* double is [bits, exp], bits its 53-bit significand (most significant bit   *)
(* first, leading bit 1) and the value bits * 2^exp; results are rounded to   *)
(* nearest, ties to even.  Sample values are given in tenths.                 *)

\* significand bits of a float64
Precision == 53

FloatZero == [bits |-> <<>>, exp |-> 0]

Zeros(n) == [i \in 1..n |-> 0]

RECURSIVE ToBits(_)
ToBits(k) == IF k = 0 THEN <<>> ELSE Append(ToBits(k \div 2), k % 2)

\* the bit string without its leading zeros
StripZeros(bits) ==
    IF \A i \in 1..Len(bits) : bits[i] = 0 THEN <<>>
    ELSE LET first == CHOOSE i \in 1..Len(bits) :
                          bits[i] = 1 /\ \A j \in 1..(i - 1) : bits[j] = 0
         IN  SubSeq(bits, first, Len(bits))

\* a + b for two bit strings of one length, for a carry of 0 and of 1 coming in:
\* the sum bits s and the carry going out c; the halves are added independently
RECURSIVE AddSelect(_, _)
AddSelect(a, b) ==
    IF Len(a) = 1
    THEN [s |-> [cin \in {0, 1} |-> <<(a[1] + b[1] + cin) % 2>>],
          c |-> [cin \in {0, 1} |-> (a[1] + b[1] + cin) \div 2]]
    ELSE LET h == Len(a) \div 2
             hi == AddSelect(SubSeq(a, 1, h), SubSeq(b, 1, h))
             lo == AddSelect(SubSeq(a, h + 1, Len(a)), SubSeq(b, h + 1, Len(b)))
         IN  [s |-> [cin \in {0, 1} |-> hi.s[lo.c[cin]] \o lo.s[cin]],
              c |-> [cin \in {0, 1} |-> hi.c[lo.c[cin]]]]

\* a + b + carry for two non-empty bit strings of one length; one bit longer
AddBits(a, b, carry) ==
    LET r == AddSelect(a, b) IN <<r.c[carry]>> \o r.s[carry]

\* the exact value bits * 2^exp (plus a nonzero remainder when sticky) rounded
\* to Precision bits, nearest with ties to even
RoundBits(bits, sticky, exp) ==
    IF bits = <<>> THEN FloatZero
    ELSE IF Len(bits) <= Precision
    THEN [bits |-> bits \o Zeros(Precision - Len(bits)), exp |-> exp - (Precision - Len(bits))]
    ELSE LET kept == SubSeq(bits, 1, Precision)
             guard == bits[Precision + 1]
             rest == sticky \/ \E i \in (Precision + 2)..Len(bits) : bits[i] = 1
             e == exp + (Len(bits) - Precision)
             up == guard = 1 /\ (rest \/ kept[Precision] = 1)
             inc == AddBits(kept, Zeros(Precision), 1)
         IN  IF ~up THEN [bits |-> kept, exp |-> e]
             ELSE IF inc[1] = 1 THEN [bits |-> SubSeq(inc, 1, Precision), exp |-> e + 1]
             ELSE [bits |-> Tail(inc), exp |-> e]

\* x + y
FloatAdd(x, y) ==
    IF x = FloatZero THEN y
    ELSE IF y = FloatZero THEN x
    ELSE LET e == IF x.exp < y.exp THEN x.exp ELSE y.exp
             xa == x.bits \o Zeros(x.exp - e)
             ya == y.bits \o Zeros(y.exp - e)
             n == IF Len(xa) > Len(ya) THEN Len(xa) ELSE Len(ya)
         IN  RoundBits(StripZeros(AddBits(Zeros(n - Len(xa)) \o xa,
                                          Zeros(n - Len(ya)) \o ya, 0)), FALSE, e)

\* long division of a non-empty bit string by a small positive integer, for every
\* remainder coming in: the quotient bits q and the remainder going out r; the
\* halves are divided independently
RECURSIVE DivSelect(_, _)
DivSelect(bits, n) ==
    IF Len(bits) = 1
    THEN [q |-> [rin \in 0..(n - 1) |-> <<(2 * rin + bits[1]) \div n>>],
          r |-> [rin \in 0..(n - 1) |-> (2 * rin + bits[1]) % n]]
    ELSE LET h == Len(bits) \div 2
             hi == DivSelect(SubSeq(bits, 1, h), n)
             lo == DivSelect(SubSeq(bits, h + 1, Len(bits)), n)
         IN  [q |-> [rin \in 0..(n - 1) |-> hi.q[rin] \o lo.q[hi.r[rin]]],
              r |-> [rin \in 0..(n - 1) |-> lo.r[hi.r[rin]]]]

LongDiv(bits, n) ==
    LET d == DivSelect(bits, n) IN [q |-> d.q[0], r |-> d.r[0]]

\* x / n for an integer n of at most 4 bits: 8 zero bits appended to the dividend
\* leave the quotient with guard bits to round on
FloatDivInt(x, n) ==
    IF x = FloatZero THEN FloatZero
    ELSE LET d == LongDiv(x.bits \o Zeros(8), n)
         IN  RoundBits(StripZeros(d.q), d.r # 0, x.exp - 8)

\* the float64 nearest to k / 10
FromTenths(k) == FloatDivInt(RoundBits(ToBits(k), FALSE, 0), 10)

\* values.sum(): the values added up from left to right
RECURSIVE FloatSum(_)
FloatSum(data) ==
    IF data = <<>> THEN FloatZero
    ELSE FloatAdd(FloatSum(SubSeq(data, 1, Len(data) - 1)),
                  FromTenths(ValueOf(data[Len(data)])))

\* data_clean.std() == 0 for two or more values: std() is the root of
\* sum((avg - values) ** 2) / (n - 1) with avg = values.sum() / n, which is zero
\* exactly when avg equals every value
StdIsZero(data) ==
    LET avg == FloatDivInt(FloatSum(data), Len(data))
    IN  \A i \in 1..Len(data) : FromTenths(ValueOf(data[i])) = avg

\* the float 0.0
Zero == [inf |-> FALSE, num |-> 0, den |-> 1]

\* np.inf
Infinity == [inf |-> TRUE, num |-> 0, den |-> 1]

Ratio(num, den) == IF num = 0 THEN Zero ELSE [inf |-> FALSE, num |-> num, den |-> den]

\* a <= b for two indices of one sample
IndexLeq(a, b) ==
    \/ b.inf
    \/ ~a.inf /\ a.num * b.den <= b.num * a.den

\* min(cpu, cpl): the first argument unless the second is smaller
Min(a, b) == IF IndexLeq(a, b) THEN a ELSE b

\* (usl - mean) / (3 * std_dev), with mean = sum / n
Cpu(data, usl) == Ratio(Len(data) * ValueOf(usl) - SumOf(data), 3 * Len(data))

\* (mean - lsl) / (3 * std_dev)
Cpl(data, lsl) == Ratio(SumOf(data) - Len(data) * ValueOf(lsl), 3 * Len(data))

\* the function with an absent limit read as 0
calculate_cpk_AbsentAsZero(data_series, lsl, usl) ==
    LET data_clean == DropNa(data_series)
    IN  IF Len(data_clean) < 2 THEN Zero
        ELSE IF StdIsZero(data_clean) THEN Zero
        ELSE IF usl = Null /\ lsl = Null THEN Infinity
        ELSE Min(Cpu(data_clean, IF usl # Null THEN usl ELSE {0}),
                 Cpl(data_clean, IF lsl # Null THEN lsl ELSE {0}))

\* calculate_cpk, lines 14-37; data_series is a Series
calculate_cpk(data_series, lsl, usl) ==
    LET data_clean == DropNa(data_series)
    IN  IF Len(data_clean) < 2 THEN Zero
        ELSE IF StdIsZero(data_clean) THEN Zero
        ELSE IF usl = Null /\ lsl = Null THEN Infinity
        ELSE LET cpu == IF usl # Null THEN Cpu(data_clean, usl) ELSE Infinity
                 cpl == IF lsl # Null THEN Cpl(data_clean, lsl) ELSE Infinity
             IN  Min(cpu, cpl)

CpkCases ==
    {[op |-> "cpk", data_series |-> s, lsl |-> l, usl |-> u, ran |-> FALSE, res |-> Zero] :
        s \in SeqsUpTo(SampleCells, MaxSample), l \in LslArgs, u \in UslArgs}

CpkInit == Constructed(kanban_states[1]) /\ calc \in CpkCases

\* a caller computes the index of its sample and limits
CalculateCpk ==
    /\ calc.op = "cpk"
    /\ ~calc.ran
    /\ calc' = [calc EXCEPT !.ran = TRUE,
                            !.res = calculate_cpk(calc.data_series, calc.lsl, calc.usl)]
    /\ UNCHANGED store

CpkNext == CalculateCpk

CpkSpec == CpkInit /\ [][CpkNext]_vars

----------------------------------------------------------------------------
(* engine/analytics.py: test_stability_poolability.  The OLS fit and its      *)
(* ANOVA table are statsmodels': what they yield for a frame is any of        *)
(* FitOutcomes.  p-values are in thousandths; a NaN p-value is the null cell. *)

\* rows of a stability frame that is enumerated
MaxLotRows == 4

\* lot_id and the assay value of a row; the time column is never null here
LotRows == [lot_id : {"LOTA-001", "LOTB-001"}, value : {Null, {995}}]

\* ols(...).fit() and anova_lm(...): an exception is raised, or the interaction
\* row of the table has this p-value
FitOutcomes ==
    {[raises |-> TRUE, p |-> Null]}
    \cup {[raises |-> FALSE, p |-> p] : p \in {Null, {0}, {49}, {50}, {51}, {1000}}}

PoolResult(poolable, p_value, reason, fitted) ==
    [poolable |-> poolable, p_value |-> p_value, reason |-> reason, fitted |-> fitted]

\* the function with the threshold met from 0.05 on
test_stability_poolability_AtLeast(df, fit) ==
    LET df_clean == SelectSeq(df, LAMBDA row : ~IsNull(row.value))
        nunique == Cardinality({df_clean[i].lot_id : i \in 1..Len(df_clean)})
    IN  IF nunique < 2 \/ Len(df_clean) < 4
        THEN PoolResult(TRUE, {1000}, "Insufficient data for test.", FALSE)
        ELSE IF fit.raises
        THEN PoolResult(FALSE, {0}, "ANCOVA test failed", TRUE)
        ELSE LET poolable == ~IsNull(fit.p) /\ ~Below(fit.p, 50)
             IN  PoolResult(poolable, fit.p,
                            IF poolable THEN "Slopes are not significantly different."
                            ELSE "Slopes are significantly different.", TRUE)

\* test_stability_poolability, lines 41-66, for a frame with the required columns;
\* fit is what the statsmodels calls of the try block do; fitted tells whether they ran
test_stability_poolability(df, fit) ==
    LET df_clean == SelectSeq(df, LAMBDA row : ~IsNull(row.value))
        nunique == Cardinality({df_clean[i].lot_id : i \in 1..Len(df_clean)})
    IN  IF nunique < 2 \/ Len(df_clean) < 4
        THEN PoolResult(TRUE, {1000}, "Insufficient data for test.", FALSE)
        ELSE IF fit.raises
        THEN PoolResult(FALSE, {0}, "ANCOVA test failed", TRUE)
        ELSE LET poolable == Above(fit.p, 50)
             IN  PoolResult(poolable, fit.p,
                            IF poolable THEN "Slopes are not significantly different."
                            ELSE "Slopes are significantly different.", TRUE)

PoolCases ==
    {[op |-> "pool", df |-> df, ran |-> FALSE,
      res |-> PoolResult(FALSE, Null, "", FALSE)] : df \in SeqsUpTo(LotRows, MaxLotRows)}

PoolInit == Constructed(kanban_states[1]) /\ calc \in PoolCases

\* a caller tests the frame; the fit, if it is reached, ends in one of FitOutcomes
TestStabilityPoolability(fit) ==
    /\ calc.op = "pool"
    /\ ~calc.ran
    /\ calc' = [calc EXCEPT !.ran = TRUE, !.res = test_stability_poolability(calc.df, fit)]
    /\ UNCHANGED store

PoolNext == \E fit \in FitOutcomes : TestStabilityPoolability(fit)

PoolSpec == PoolInit /\ [][PoolNext]_vars

----------------------------------------------------------------------------
(* engine/analytics.py: run_anomaly_detection.  contamination is in           *)
(* hundredths (the null cell is NaN); IsolationForest.fit_predict is          *)
(* scikit-learn's and labels every row it is given with 1 or -1.              *)

\* rows of a frame that is enumerated
MaxFitRows == 3

\* the selected feature columns of a row
FeatureRows == [x : {Null, {1}}, y : {Null, {2}}]

ContaminationArgs == {Null, {-10}, {0}, {1}, {25}, {49}, {50}, {60}}

\* df[cols].dropna(): the positions of the rows with no null in the features
CompleteRows(df) ==
    SelectSeq([i \in 1..Len(df) |-> i], LAMBDA i : ~IsNull(df[i].x) /\ ~IsNull(df[i].y))

\* model.fit_predict(data_to_fit): one label per row of data_to_fit
FitPredict(data_to_fit) == [1..Len(data_to_fit) -> {1, -1}]

AnomalyResult(error, predictions, data_fitted, fitted) ==
    [error |-> error, predictions |-> predictions, data_fitted |-> data_fitted,
     fitted |-> fitted]

\* the function with 0.5 accepted
run_anomaly_detection_Inclusive(df, has_cols, contamination, predictions) ==
    IF ~has_cols
    THEN AnomalyResult("ValueError: DataFrame must contain all specified columns", <<>>, <<>>, FALSE)
    ELSE IF ~(Above(contamination, 0) /\ ~Above(contamination, 50) /\ ~IsNull(contamination))
    THEN AnomalyResult("ValueError: Contamination must be between 0 and 0.5.", <<>>, <<>>, FALSE)
    ELSE LET data_to_fit == CompleteRows(df)
         IN  IF Len(data_to_fit) < 2 THEN AnomalyResult("", <<>>, <<>>, FALSE)
             ELSE AnomalyResult("", predictions, data_to_fit, TRUE)

\* run_anomaly_detection, lines 157-170; has_cols: df has every column of cols;
\* predictions: what fit_predict returns if it is reached
run_anomaly_detection(df, has_cols, contamination, predictions) ==
    IF ~has_cols
    THEN AnomalyResult("ValueError: DataFrame must contain all specified columns", <<>>, <<>>, FALSE)
    ELSE IF ~(Above(contamination, 0) /\ Below(contamination, 50))
    THEN AnomalyResult("ValueError: Contamination must be between 0 and 0.5.", <<>>, <<>>, FALSE)
    ELSE LET data_to_fit == CompleteRows(df)
         IN  IF Len(data_to_fit) < 2 THEN AnomalyResult("", <<>>, <<>>, FALSE)
             ELSE AnomalyResult("", predictions, data_to_fit, TRUE)

AnomalyCases ==
    {[op |-> "anomaly", df |-> df, has_cols |-> h, contamination |-> c, ran |-> FALSE,
      res |-> AnomalyResult("", <<>>, <<>>, FALSE)] :
        df \in SeqsUpTo(FeatureRows, MaxFitRows), h \in BOOLEAN, c \in ContaminationArgs}

AnomalyInit == Constructed(kanban_states[1]) /\ calc \in AnomalyCases

\* a caller runs the detection; the fit, if it is reached, returns predictions
RunAnomalyDetection(predictions) ==
    /\ calc.op = "anomaly"
    /\ ~calc.ran
    /\ calc' = [calc EXCEPT !.ran = TRUE,
                            !.res = run_anomaly_detection(calc.df, calc.has_cols,
                                                          calc.contamination, predictions)]
    /\ UNCHANGED store

AnomalyNext ==
    \E predictions \in FitPredict(CompleteRows(calc.df)) : RunAnomalyDetection(predictions)

AnomalySpec == AnomalyInit /\ [][AnomalyNext]_vars

----------------------------------------------------------------------------
(* MockDataRepository.get_data and its callers.  A DataFrame is an object a   *)
(* caller can change in place; own tells whether the frame a caller holds is  *)
(* an object of its own or the very object the repository keeps.              *)

\* the script thread that reads
Reader == "t1"

\* get_data returning the repository's own frame
ReturnedFrame_Shared(data_type) == [frame |-> get_data(data_type), own |-> FALSE]

\* line 54: return self._cache[data_type].copy()
ReturnedFrame(data_type) == [frame |-> get_data(data_type), own |-> TRUE]

\* a test or a page takes a dataset from the repository
CallerRead(data_type) ==
    /\ pc[Reader] = "idle"
    /\ calc' = [op |-> "read", key |-> data_type,
                frame |-> ReturnedFrame(data_type).frame,
                own |-> ReturnedFrame(data_type).own, mutated |-> FALSE]
    /\ UNCHANGED store

\* what a caller does to a frame in place: drop its first row, or overwrite a cell of it
MutationKinds == {"drop", "overwrite"}

MutatedFrame(key, frame, kind) ==
    IF kind = "drop" THEN Tail(frame)
    ELSE IF key = "deviations" THEN [frame EXCEPT ![1].status = "Tampered"]
    ELSE [frame EXCEPT ![1].action = "Tampered"]

\* the caller changes the frame it holds; a frame that is the repository's own
\* object changes there too
CallerMutates(kind) ==
    /\ calc.op = "read"
    /\ calc.frame # <<>>
    /\ LET frame == MutatedFrame(calc.key, calc.frame, kind)
       IN  /\ calc' = [calc EXCEPT !.frame = frame, !.mutated = TRUE]
           /\ deviations' = IF ~calc.own /\ calc.key = "deviations" THEN frame ELSE deviations
           /\ audit' = IF ~calc.own /\ calc.key = "audit" THEN frame ELSE audit
    /\ UNCHANGED <<drafts, session, pc, call, last, snap, dsnap, nCalls, nSigned, data_cache>>

\* reads and in-place changes by a caller, among the operations that write
RepoNext ==
    \/ \E k \in DataKeys : CallerRead(k)
    \/ \E kind \in MutationKinds : CallerMutates(kind)
    \/ \E d \in DevIds(deviations), s \in StatusArgs : AdvanceUpdate(Reader, d, s, SessionUser)
    \/ WriteAuditLog(Reader, SessionUser, "Data Ingestion", 0)
    \/ WalRead(Reader)
    \/ WalWrite(Reader)
    \/ \E st \in Studies : CreateStart(Reader, FALSE, st, SessionUser)
    \/ CreateConcat(Reader)
    \/ CreateAssign(Reader)

RepoSpec == Init /\ [][RepoNext]_vars

----------------------------------------------------------------------------
(* Helpers of the properties *)

RECURSIVE SumSeq(_)
SumSeq(q) == IF q = <<>> THEN 0 ELSE Head(q) + SumSeq(Tail(q))

\* ledger positions appended since construction that carry the signature action
AppendedSignatures ==
    {i \in (Len(InitialAudit) + 1)..Len(audit) : audit[i].action = "E-Signature Applied"}

IsPrefix(p, q) == Len(p) <= Len(q) /\ SubSeq(q, 1, Len(p)) = p

\* thread t is inside an advance call, past its guards
InAdvance(t) == call[t].op = "advance"

----------------------------------------------------------------------------
(* Deviation lifecycle *)

\* C1: every change of a deviation's stored status moves it to the state that
\* immediately follows its stored status in Open -> In Progress -> Under Review ->
\* Closed; it never moves backward and never skips a state.
C1_StatusStepsForward ==
    [][\A i \in DOMAIN deviations :
          (i \in DOMAIN deviations' /\ deviations'[i].status # deviations[i].status)
              => StateIndex(deviations'[i].status) = StateIndex(deviations[i].status) + 1]_vars

\* C2: an advance call whose current_status differs from the stored status fails and
\* leaves the stored status alone: no such call gets past the guards, and every such
\* call ends in the error.
C2_StaleStatusRejected ==
    /\ \A t \in Threads : InAdvance(t) => call[t].before = call[t].cur
    /\ (last.op = "advance" /\ last.before # last.cur) => last.res = "ValueError"

\* C3: of two advance calls for one deviation that carry the same expected status,
\* read while it was the stored status and before either call ran, exactly one
\* succeeds: the two are never both past the guards, and the second never gets past
\* them after the first has returned successfully.
C3_OneOfTwoSucceeds ==
    /\ \A t1, t2 \in Threads :
          (t1 # t2 /\ InAdvance(t1) /\ InAdvance(t2) /\ call[t1].dev = call[t2].dev
             /\ call[t1].cur = call[t2].cur)
              => call[t1].before # call[t1].cur
    /\ \A t \in Threads :
          (InAdvance(t) /\ last.op = "advance" /\ last.res = "ok" /\ last.dev = call[t].dev
             /\ last.cur = call[t].cur)
              => last.before # last.cur

\* C4: an advance call on a deviation whose stored status is Closed always fails,
\* whatever current_status it carries, and a stored Closed stays Closed.
C4_ClosedIsAbsorbing ==
    [][/\ \A i \in DOMAIN deviations :
             deviations[i].status = "Closed"
                 => (i \in DOMAIN deviations' /\ deviations'[i].status = "Closed")
       /\ \A t \in Threads :
             (InAdvance(t)' /\ ~InAdvance(t)) => call'[t].before # "Closed"]_vars

----------------------------------------------------------------------------
(* Audit ledger *)

\* C5: every append of concurrent callers lands in the ledger: the write of an append
\* keeps every entry the ledger holds at that moment and puts the new one after them,
\* so the ledger grows by exactly one per append and none is lost or overwritten.
C5_NoAppendLost ==
    [][\A t \in Threads :
          (pc[t] = "wal_write" /\ pc'[t] = "idle")
              => audit' = Append(audit, call[t].entry)]_vars

\* C6: the ledger is append-only: over every step of every operation the ledger
\* before the step is a prefix of the ledger after it.
C6_LedgerAppendOnly == [][IsPrefix(audit, audit')]_vars

\* C6 witness: appends by several operations have happened on top of the initial log
C6_Witness ==
    /\ Len(audit) >= Len(InitialAudit) + 2
    /\ \E i \in DOMAIN audit : audit[i].action = "Deviation Status Changed"
    /\ \E i \in DOMAIN audit : audit[i].action = "Deviation Created"

----------------------------------------------------------------------------
(* Report signing *)

\* C7: no signature entry is appended and no Final artifact produced by
\* finalize_and_sign_report unless a credential check accepted the signer for that
\* attempt.
C7_SignedOnlyAfterCredentialCheck ==
    (last.op = "finalize" /\ last.res = "ok") => last.credOk

\* C8: a draft is single-use: once a sign-and-lock on a draft's data has succeeded,
\* no later sign-and-lock call on the same draft data succeeds.
C8_DraftSingleUse ==
    /\ ~(last.op = "finalize" /\ last.res = "ok" /\ last.resign)
    /\ \A d \in DOMAIN nSigned : nSigned[d] <= 1

\* C9: a successful sign-and-lock appends exactly one entry, with action
\* 'E-Signature Applied', the signer as user and the draft's study id as record id;
\* the signature entries appended since construction are as many as the successful
\* sign-and-lock calls.
C9_OneSignatureEntryPerSigning ==
    /\ (last.op = "finalize" /\ last.res = "ok")
          => /\ audit[Len(audit)].action = "E-Signature Applied"
             /\ audit[Len(audit)].user = last.user
             /\ audit[Len(audit)].record_id = drafts[last.draft].study
    /\ Cardinality(AppendedSignatures) = SumSeq(nSigned)

\* C9 witness: two sign-and-lock calls have returned, on top of a log that was
\* constructed with a signature entry in it
C9_Witness ==
    /\ last.op = "finalize" /\ last.res = "ok"
    /\ SumSeq(nSigned) = 2
    /\ \E i \in DOMAIN InitialAudit : audit[i].action = "E-Signature Applied"

\* C10: a Final artifact returned by finalize_and_sign_report carries no watermark and
\* exactly one signature block, that of the call that returned it.
C10_FinalArtifact ==
    (last.op = "finalize" /\ last.res = "ok")
        => /\ last.art.filename = "FINAL"
           /\ last.art.watermark = ""
           /\ last.art.sigs = <<SignatureDetails(last.user, last.ts, last.reason)>>

\* C10 witness: a Final was returned for draft data that had been signed before
C10_Witness == last.op = "finalize" /\ last.res = "ok" /\ last.resign

----------------------------------------------------------------------------
(* Draft reports *)

\* C11: every artifact generate_draft_report returns, for the PDF and for the
\* PowerPoint format, carries the draft watermark and no signature block.
C11_DraftWatermarked ==
    (last.op = "generate" /\ last.res = "ok")
        => /\ last.art.watermark = "DRAFT"
           /\ last.art.sigs = <<>>

\* the step is a generate_draft_report call, returning or raising
GenerateStep ==
    /\ nCalls' = nCalls + 1
    /\ call' = call
    /\ last'.op = "generate"
    /\ \/ last'.res = "ok" /\ Len(drafts') = Len(drafts) + 1 /\ last'.draft = Len(drafts')
       \/ last'.res = "ValueError" /\ drafts' = drafts

\* C12: generate_draft_report never writes to the audit ledger or the deviation
\* store: over a call that returns and over a call that raises, both are the same
\* after the call as before it.
C12_DraftLeavesLedgerAlone ==
    [][GenerateStep => (audit' = audit /\ deviations' = deviations)]_vars

\* C12 witness: a draft was returned while the ledger held appended entries
C12_Witness ==
    /\ last.op = "generate" /\ last.res = "ok"
    /\ Len(audit) > Len(InitialAudit)

----------------------------------------------------------------------------
(* Lineage *)

\* record ids that occur in the ledger
TraceableIds == {audit[i].record_id : i \in DOMAIN audit}

\* C13: for every record id, tracing its lineage yields exactly the ledger's entries
\* of that id in the order they were appended, whatever the interleaving of the
\* appends and whatever the timestamps they carry.
C13_LineageInLedgerOrder ==
    \A r \in TraceableIds : plot_data_lineage_graph(audit, r) = RecordRows(audit, r)

----------------------------------------------------------------------------
(* Reads *)

\* the step is a get_cached_data call
ReadStep ==
    /\ nCalls' = nCalls + 1
    /\ call' = call
    /\ drafts' = drafts
    /\ last'.op = "get_cached_data"

\* C14: read-your-writes: with every earlier write returned, a read of a dataset,
\* the pages' reads through get_cached_data included, returns the dataset as the
\* repository holds it, never an older one.
C14_ReadYourWrites ==
    [][ReadStep => last'.data = (IF last'.key = "deviations" THEN deviations ELSE audit)]_vars

----------------------------------------------------------------------------
(* Ledger entries *)

\* C15: an append with an empty user or an empty action is rejected before anything
\* is appended, so no ledger entry has an empty user or an empty action.
C15_NoEmptyUserOrAction ==
    \A i \in DOMAIN audit : audit[i].user # "" /\ audit[i].action # ""

----------------------------------------------------------------------------
(* Deviation creation *)

\* C16: deviation ids are unique: after any calls of create_deviation_from_qc, one
\* after another or overlapping, no two rows of the deviation store have the same id.
C16_DeviationIdsUnique ==
    \A i, j \in DOMAIN deviations : i # j => deviations[i].id # deviations[j].id

\* C17: a successful create_deviation_from_qc adds exactly one deviation, with status
\* Open, and appends exactly one 'Deviation Created' entry whose record_id is the
\* returned id and whose user is the caller; the deviations that existed are
\* unchanged, and no other step of the call touches the store or the ledger.
C17_CreateAddsOneOpenDeviation ==
    [][\A t \in Threads :
          call[t].op = "create" =>
              IF pc[t] = "cd_assign"
              THEN /\ deviations' = Append(deviations,
                                              [id |-> call[t].newId, status |-> "Open",
                                               title |-> "QC Discrepancies found",
                                               priority |-> "High", linked_record |-> "QC_REPORT", rca_capa |-> ""])
                   /\ audit' = audit
              ELSE IF pc[t] = "wal_write"
              THEN /\ deviations' = deviations
                   /\ Len(audit') = Len(audit) + 1
                   /\ SubSeq(audit', 1, Len(audit)) = audit
                   /\ audit'[Len(audit')].action = "Deviation Created"
                   /\ audit'[Len(audit')].user = call[t].user
                   /\ last'.op = "create" /\ last'.res = "ok"
                   /\ audit'[Len(audit')].record_id = last'.newId
                   /\ \E i \in DOMAIN deviations' : deviations'[i].id = last'.newId
              ELSE deviations' = deviations /\ audit' = audit]_vars

\* C17 witness: a create has returned, on a store that an advance had changed before
C17_Witness ==
    /\ last.op = "create" /\ last.res = "ok"
    /\ \E i \in DOMAIN deviations : deviations[i].id = last.newId
    /\ \E i \in DOMAIN audit : audit[i].action = "Deviation Status Changed"

----------------------------------------------------------------------------
(* Failures of the deviation lifecycle *)

\* the step is an advance_deviation_status or create_deviation_from_qc call that raises
FailStep ==
    /\ nCalls' = nCalls + 1
    /\ call' = call
    /\ drafts' = drafts
    /\ last'.op \in {"advance", "create"}
    /\ last'.res = "ValueError"

\* the status of some stored deviation is changed by the step
StatusChanges ==
    \E i \in DOMAIN deviations :
        i \in DOMAIN deviations' /\ deviations'[i].status # deviations[i].status

----------------------------------------------------------------------------
(* Transition entries *)

\* C19: every 'Deviation Status Changed' entry describes the transition that took
\* place: when the advance call that appends it returns, its record_id is a stored
\* deviation, its from-status is the status that was stored when the call began,
\* its to-status is the status stored now, and the two are one step apart.
C19_EntryDescribesTransition ==
    [][\A t \in Threads :
          (InAdvance(t) /\ ~InAdvance(t)')
              => /\ audit'[Len(audit')].action = "Deviation Status Changed"
                 /\ audit'[Len(audit')].record_id \in DevIds(deviations')
                 /\ audit'[Len(audit')].details[1] = call[t].before
                 /\ audit'[Len(audit')].details[2] = StoredStatus(deviations', call[t].dev)
                 /\ StateIndex(audit'[Len(audit')].details[2])
                        = StateIndex(audit'[Len(audit')].details[1]) + 1]_vars

----------------------------------------------------------------------------
(* Retrying a failed advance *)

\* the last call was an advance that failed with a current_status that was not the
\* stored one
StaleFailure == last.op = "advance" /\ last.res = "ValueError" /\ last.before # last.cur

\* get_deviation_details: the status a caller reads again for that deviation
Reread == StoredStatus(deviations, last.dev)

\* the step is an advance call with the status read again, and it raises
RetryRaises ==
    /\ nCalls' = nCalls + 1
    /\ call' = call
    /\ drafts' = drafts
    /\ last'.op = "advance" /\ last'.res = "ValueError"
    /\ last'.dev = last.dev /\ last'.cur = Reread

\* the step is an advance call of t with the status read again, and it passes the guards
RetryPasses(t) ==
    /\ ~InAdvance(t) /\ InAdvance(t)'
    /\ call'[t].dev = last.dev /\ call'[t].cur = Reread

\* C20: a failed advance is safely retryable: after an advance has failed on a stale
\* status, an advance with the status read again does not raise unless the stored
\* status is Closed, moves the deviation exactly one state on from its stored
\* status, and returns normally.
C20_FailedAdvanceRetryable ==
    [][/\ (StaleFailure /\ Reread # "Closed")
             => /\ ~RetryRaises
                /\ \A t \in Threads :
                      RetryPasses(t)
                          => StateIndex(StoredStatus(deviations', last.dev))
                                = StateIndex(Reread) + 1
       /\ \A t \in Threads : (InAdvance(t) /\ ~InAdvance(t)') => last'.res = "ok"]_vars

\* C20 witness: after a failure on a stale status, the retry with the stored status
\* is past the guards and has moved the deviation
C20_Witness ==
    /\ StaleFailure
    /\ \E t \in Threads :
          /\ InAdvance(t) /\ call[t].dev = last.dev
          /\ call[t].cur = call[t].before
          /\ Reread = NewStatus(call[t].cur)

----------------------------------------------------------------------------
(* The QC engine *)

\* the step is a call of apply_qc_rules with the configuration under study
ProbeStep == calc.op = "qc" /\ calc'.runs = calc.runs + 1

Rules == <<"check_nulls", "check_negatives", "check_spec_limits">>

\* the rule configuration that enables one rule
OnlyRule(rule) == [r \in {Rules[i] : i \in 1..Len(Rules)} |-> r = rule]

\* the report of the dataset under study with one rule enabled alone
Alone(rule) == apply_qc_rules(calc.df, OnlyRule(rule), calc.app_config)

\* what a rule contributes: its report alone when enabled, nothing when disabled
Part(rule) == IF calc.rules_config[rule] THEN Alone(rule) ELSE <<>>

ConcatOfRules == Part(Rules[1]) \o Part(Rules[2]) \o Part(Rules[3])

\* strictly rising sample positions: source row order, no row twice
RowOrdered(out) == \A j \in 1..(Len(out) - 1) : out[j].sample_id < out[j + 1].sample_id

OfCqa(out, cqa) == SelectSeq(out, LAMBDA d : d.Details.cqa = cqa)

RECURSIVE ConcatByCqa(_, _)
ConcatByCqa(out, limits) ==
    IF limits = <<>> THEN <<>>
    ELSE OfCqa(out, Head(limits).cqa) \o ConcatByCqa(out, Tail(limits))

QcRan == calc.op = "qc" /\ calc.runs >= 1

\* C22 as stated: the report is the concatenation, in the order MissingValue,
\* NegativeValue, SpecLimit, of the reports of each enabled rule alone, each of
\* them in source row order with a row appearing once per violated rule.
C22_EachRuleInRowOrder ==
    QcRan => /\ calc.res = ConcatOfRules
             /\ \A i \in 1..Len(Rules) : RowOrdered(Alone(Rules[i]))

\* C22, amended: the report is the concatenation, in the order MissingValue,
\* NegativeValue, SpecLimit, of the reports of each enabled rule alone; the
\* MissingValue and NegativeValue reports are in source row order with a row at
\* most once; the SpecLimit report is grouped by CQA in the order of the
\* configured limits, in source row order inside each CQA, so a row appears once
\* per CQA it violates.
C22_RulesConcatenated ==
    QcRan => /\ calc.res = ConcatOfRules
             /\ RowOrdered(Alone("check_nulls"))
             /\ RowOrdered(Alone("check_negatives"))
             /\ Alone("check_spec_limits")
                    = ConcatByCqa(Alone("check_spec_limits"), calc.app_config.spec_limits)
             /\ \A k \in 1..Len(calc.app_config.spec_limits) :
                    RowOrdered(OfCqa(Alone("check_spec_limits"),
                                     calc.app_config.spec_limits[k].cqa))

\* all three rules enabled and each contributed; one row is reported by the
\* SpecLimit rule for two CQAs
C22_Witness ==
    /\ QcRan
    /\ \A i \in 1..Len(Rules) : calc.rules_config[Rules[i]] /\ Alone(Rules[i]) # <<>>
    /\ ~RowOrdered(Alone("check_spec_limits"))

\* the report has an 'Out of Specification' line for this row and CQA
Flagged(i, cqa) ==
    \E k \in 1..Len(calc.res) :
        /\ calc.res[k].Issue = "Out of Specification"
        /\ calc.res[k].sample_id = i
        /\ calc.res[k].Details.cqa = cqa

\* non-null, and below a present lower limit or above a present upper limit
Outside(cell, specs) ==
    \E v \in cell : (\E b \in specs.lsl : v < b) \/ (\E b \in specs.usl : v > b)

LimitsInFrame ==
    {k \in 1..Len(calc.app_config.spec_limits) :
        calc.app_config.spec_limits[k].cqa \in calc.df.columns}

\* C23: with check_spec_limits enabled a row is reported 'Out of Specification'
\* for a CQA exactly when its value is non-null and below the lower limit (if
\* present) or above the upper limit (if present), once per such row and CQA; a
\* null never is, an absent bound flags nothing.  The 5-row example (one null,
\* one 150 in purity, limits 98..102, nulls and limits checked) gives exactly one
\* Missing Value and one Out of Specification.
C23_OutOfSpecExactly ==
    (QcRan /\ calc.rules_config.check_spec_limits) =>
        /\ \A i \in 1..Len(calc.df.rows), k \in LimitsInFrame :
               LET specs == calc.app_config.spec_limits[k]
               IN  Flagged(i, specs.cqa) <=> Outside(calc.df.rows[i][specs.cqa], specs)
        /\ Cardinality({j \in 1..Len(calc.res) : calc.res[j].Issue = "Out of Specification"})
             = Cardinality({<<i, k>> \in (1..Len(calc.df.rows)) \X LimitsInFrame :
                   Outside(calc.df.rows[i][calc.app_config.spec_limits[k].cqa],
                           calc.app_config.spec_limits[k])})
        /\ (/\ calc.df = ExampleDataset
            /\ calc.app_config.spec_limits = spec_limits
            /\ calc.rules_config.check_nulls)
           => /\ Len(calc.res) = 2
              /\ calc.res[1].Issue = "Missing Value" /\ calc.res[1].sample_id = 3
              /\ calc.res[2].Issue = "Out of Specification" /\ calc.res[2].sample_id = 4

\* the 5-row example ran with nulls and limits checked and reported two lines
C23_Witness ==
    /\ QcRan
    /\ calc.rules_config.check_spec_limits /\ calc.rules_config.check_nulls
    /\ calc.df = ExampleDataset /\ calc.app_config.spec_limits = spec_limits
    /\ Len(calc.res) = 2

----------------------------------------------------------------------------
(* The capability index *)

CpkRan == calc.op = "cpk" /\ calc.ran

\* the non-missing values of the sample under study
CleanSample == DropNa(calc.data_series)

\* fewer than 2 non-missing values, or all of them equal (standard deviation 0)
Degenerate ==
    \/ Len(CleanSample) < 2
    \/ \A i, j \in 1..Len(CleanSample) : CleanSample[i] = CleanSample[j]

\* C24: calculate_cpk returns the sentinel 0.0 for every sample with fewer than 2
\* non-missing values or with standard deviation 0, whatever limits are passed,
\* also when both limits are absent: the degenerate case comes before the
\* infinite result of 'no limits'.
C24_DegenerateIsZero ==
    (CpkRan /\ Degenerate) => calc.res = Zero

\* C25: for every non-degenerate sample, with only the upper bound the result is
\* (usl - mean)/(3*std), with only the lower bound it is (mean - lsl)/(3*std): the
\* absent bound is not read as zero and does not lower the result; with both
\* bounds the result is the smaller of the two.  With n values of sum s the two
\* indices are (n*usl - s)/(3*n*std) and (s - n*lsl)/(3*n*std).
C25_OneSidedIndex ==
    (CpkRan /\ ~Degenerate) =>
        LET n == Len(CleanSample)
            s == SumOf(CleanSample)
            upper == Ratio(n * ValueOf(calc.usl) - s, 3 * n)
            lower == Ratio(s - n * ValueOf(calc.lsl), 3 * n)
        IN  /\ (calc.lsl = Null /\ calc.usl # Null) => calc.res = upper
            /\ (calc.usl = Null /\ calc.lsl # Null) => calc.res = lower
            /\ (calc.lsl # Null /\ calc.usl # Null) =>
                   /\ calc.res \in {upper, lower}
                   /\ calc.res.num <= upper.num /\ calc.res.num <= lower.num

\* a varying sample with only an upper bound, whose index is below what a lower
\* bound of 0 would give
C25_Witness ==
    /\ CpkRan /\ ~Degenerate
    /\ calc.lsl = Null /\ calc.usl = {100}
    /\ calc.res.num > SumOf(CleanSample)

----------------------------------------------------------------------------
(* Poolability *)

\* the rows of the frame under study with no null
ValidRows == SelectSeq(calc.df, LAMBDA row : row.value # Null)

\* fewer than 2 distinct lots or fewer than 4 valid rows
TooLittleData ==
    \/ Len(ValidRows) < 4
    \/ \A i, j \in 1..Len(ValidRows) : ValidRows[i].lot_id = ValidRows[j].lot_id

\* C26: in every result of test_stability_poolability (short-circuit, fitted
\* model, failed fit) poolable is true exactly when the returned p_value is
\* greater than 0.05; with fewer than 2 distinct lots or fewer than 4 valid rows
\* the result is poolable with p_value 1.0 and no model is fitted.
C26_PoolableIffPAbove ==
    (calc.op = "pool" /\ calc.ran) =>
        /\ calc.res.poolable <=> (\E p \in calc.res.p_value : p > 50)
        /\ TooLittleData => /\ calc.res.poolable
                            /\ calc.res.p_value = {1000}
                            /\ ~calc.res.fitted

\* a fitted model whose interaction p-value is exactly 0.05 was reported not poolable
C26_Witness ==
    /\ calc.op = "pool" /\ calc.ran
    /\ calc.res.fitted
    /\ calc.res.p_value = {50}
    /\ ~calc.res.poolable

----------------------------------------------------------------------------
(* Anomaly detection *)

AnomalyRan == calc.op = "anomaly" /\ calc.ran

\* strictly between 0 and 0.5
ValidContamination == \E c \in calc.contamination : 0 < c /\ c < 50

\* positions of the input rows with no null in the selected features
LabelledRows ==
    {i \in 1..Len(calc.df) : calc.df[i].x # Null /\ calc.df[i].y # Null}

\* the call failed on the contamination value and fitted nothing
FailsBeforeFit ==
    /\ calc.res.error # ""
    /\ calc.has_cols =>
           calc.res.error = "ValueError: Contamination must be between 0 and 0.5."
    /\ ~calc.res.fitted
    /\ calc.res.predictions = <<>>

\* one label in {+1, -1} for each row without null, in row order, none for the others
OneLabelPerCompleteRow ==
    /\ calc.res.error = ""
    /\ Len(calc.res.predictions) = Cardinality(LabelledRows)
    /\ \A k \in 1..Len(calc.res.predictions) : calc.res.predictions[k] \in {1, -1}
    /\ {calc.res.data_fitted[k] : k \in 1..Len(calc.res.data_fitted)} = LabelledRows

\* C27 as stated: the call fails before fitting for every contamination not
\* strictly between 0 and 0.5 (0 and 0.5 included); for a valid contamination (and
\* a frame that has the selected columns) it returns one label in {+1, -1} for
\* each input row without null in the selected features and none for the others.
C27_LabelForEveryCompleteRow ==
    AnomalyRan => /\ ~ValidContamination => FailsBeforeFit
                  /\ (ValidContamination /\ calc.has_cols) => OneLabelPerCompleteRow

\* C27, amended: the call fails before fitting for every contamination not
\* strictly between 0 and 0.5; for a valid contamination and a frame that has
\* the selected columns it returns one label in {+1, -1} for each row without
\* null when there are at least two such rows, and no label at all, without
\* fitting, when there are fewer than two.
C27_LabelsFromTwoCompleteRows ==
    AnomalyRan =>
        /\ ~ValidContamination => FailsBeforeFit
        /\ (ValidContamination /\ calc.has_cols /\ Cardinality(LabelledRows) >= 2) =>
               OneLabelPerCompleteRow /\ calc.res.fitted
        /\ (ValidContamination /\ calc.has_cols /\ Cardinality(LabelledRows) < 2) =>
               /\ calc.res.error = ""
               /\ calc.res.predictions = <<>> /\ calc.res.data_fitted = <<>>
               /\ ~calc.res.fitted

\* two rows without null and one with a null were given with contamination 0.49:
\* two labels came back
C27_Witness ==
    /\ AnomalyRan
    /\ calc.contamination = {49}
    /\ Len(calc.df) = 3 /\ Cardinality(LabelledRows) = 2
    /\ calc.res.fitted /\ Len(calc.res.predictions) = 2

----------------------------------------------------------------------------
(* Copy-on-read *)

\* the step is a read or a caller's change of the frame it holds
CallerStep == calc' # calc

\* the step is inside update_deviation_status, create_deviation or write_audit_log
WriteStep ==
    \/ pc[Reader] = "idle" /\ pc'[Reader] = "wal_read" /\ call'[Reader].op = "advance"
    \/ pc[Reader] = "cd_assign"
    \/ pc[Reader] = "wal_write"

\* C28: copy-on-read.  A caller may change a frame it got from get_data in any
\* way: no read and no change of a held frame alters what get_data returns for
\* either key, so the next get_data returns what it would have returned had no
\* caller changed anything; what get_data returns changes only inside
\* write_audit_log, create_deviation and update_deviation_status.
C28_CopyOnRead ==
    [][/\ CallerStep => get_data("deviations")' = get_data("deviations")
                        /\ get_data("audit")' = get_data("audit")
       /\ (\E k \in DataKeys : get_data(k)' # get_data(k)) => WriteStep]_vars

\* a caller holds a frame it has changed, and the repository still returns
\* something else for that key
C28_Witness ==
    /\ calc.op = "read"
    /\ calc.mutated
    /\ calc.frame # get_data(calc.key)
    /\ nCalls > 0

----------------------------------------------------------------------------
(* The report request of a page session *)

HoldsDraft(sess) == sess.draft_report # 0

HoldsFinal(sess) == sess.final_report # NoArtifact

\* the step submits the e-signature form and the credentials are turned down
FormRejectStep == nCalls' = nCalls + 1 /\ last' # last /\ last'.op = "form_sign"

\* the step submits the e-signature form of thread t and the manager is called
FormAcceptStep(t) == pc[t] = "idle" /\ pc'[t] = "fin_render" /\ call'[t].viaForm

\* C29: the report request follows NoDraft -> Drafted -> Signed.  A session never
\* holds a draft and a Final together; it comes to hold a Final only when a
\* sign-and-lock of the draft it holds returns, and that clears the draft; coming
\* to hold a new draft clears the Final; the signing form is never submitted
\* while no draft is held.
C29_ReportStateMachine ==
    [][/\ FormRejectStep =>
             \E t \in Threads : HoldsDraft(session[t]) /\ last'.draft = session[t].draft_report
       /\ \A t \in Threads :
          /\ ~(HoldsDraft(session'[t]) /\ HoldsFinal(session'[t]))
          /\ (HoldsFinal(session'[t]) /\ session'[t].final_report # session[t].final_report)
               => /\ pc[t] = "wal_write" /\ call[t].op = "finalize" /\ call[t].viaForm
                  /\ HoldsDraft(session[t]) /\ call[t].draft = session[t].draft_report
                  /\ last'.res = "ok"
                  /\ session'[t].final_report = call[t].art
                  /\ ~HoldsDraft(session'[t])
          /\ (HoldsDraft(session'[t]) /\ session'[t].draft_report # session[t].draft_report)
               => ~HoldsFinal(session'[t])
          /\ FormAcceptStep(t) =>
                 HoldsDraft(session[t]) /\ call'[t].draft = session[t].draft_report]_vars

\* a session signed its draft through the form: it holds the Final and no draft
C29_Witness ==
    /\ HoldsFinal(session["t1"])
    /\ ~HoldsDraft(session["t1"])
    /\ last.op = "finalize" /\ last.viaForm /\ last.res = "ok"

\* the fields of a deviation row other than its status
Descriptive(row) ==
    [title |-> row.title, priority |-> row.priority,
     linked_record |-> row.linked_record, rca_capa |-> row.rca_capa]

\* the step is the store update of an advance of dev_id by thread t
AdvanceStoreStep(t, dev_id) ==
    /\ pc[t] = "idle" /\ pc'[t] = "wal_read"
    /\ call'[t].op = "advance" /\ call'[t].dev = dev_id

\* the step belongs to an advance_deviation_status call of thread t
AdvanceStep(t) ==
    pc'[t] # pc[t] /\ (call[t].op = "advance" \/ call'[t].op = "advance")

\* the step is an advance_deviation_status call that raises
AdvanceRaiseStep == last' # last /\ last'.op = "advance" /\ last'.res = "ValueError"

\* C30: advance_deviation_status(dev_id, ...) changes nothing but the status field of
\* the deviation with id dev_id: every other deviation's row and every other field
\* (title, priority, linked_record, RCA/CAPA text) of the target deviation stay unchanged;
\* no step of any operation makes the number of deviations smaller; and every stored
\* status is one of Open, In Progress, Under Review, Closed, before and after every step.
C30_AdvanceTouchesOnlyStatus ==
    [][/\ Len(deviations') >= Len(deviations)
       /\ \A i \in DOMAIN deviations : deviations[i].status \in StateSet
       /\ \A i \in DOMAIN deviations' : deviations'[i].status \in StateSet
       /\ AdvanceRaiseStep => deviations' = deviations
       /\ \A t \in Threads :
             AdvanceStep(t) =>
                 /\ Len(deviations') = Len(deviations)
                 /\ \A i \in DOMAIN deviations :
                       /\ deviations'[i].id = deviations[i].id
                       /\ Descriptive(deviations'[i]) = Descriptive(deviations[i])
                       /\ deviations'[i].status # deviations[i].status =>
                             AdvanceStoreStep(t, deviations[i].id)]_vars

\* an advance has changed the status of one of two deviations and left the other alone
C30_Witness ==
    /\ Len(deviations) = 2
    /\ last.op = "advance" /\ last.res = "ok"
    /\ last.dev = FirstDevId
    /\ deviations[1].status # last.before
    /\ deviations[2].status = "Open"
    /\ deviations[1].title # deviations[2].title

====
